---- MODULE Spec2Model ----
(***************************************************************************)
(* A model of durabletask/worker.py: the orchestration replay executor     *)
(* (_OrchestrationExecutor), the orchestration context                     *)
(* (_RuntimeOrchestrationContext) and the non-determinism detector.        *)
(*                                                                         *)
(* One behaviour of Spec is one call of _OrchestrationExecutor.execute on  *)
(* a fresh executor: the events of old_events and new_events are drawn one *)
(* at a time from HistoryEvents, and every step of the code that can leave *)
(* the context in an observable intermediate state (the drain loop of      *)
(* executionResumed, the except clause of execute) is an action of its own.*)
(***************************************************************************)
EXTENDS Integers, Sequences, FiniteSets, TLC

(***************************************************************************)
(* Bounds of the model.                                                    *)
(***************************************************************************)
\* the number of events of old_events ++ new_events one execute call is fed
MaxHist == 3
\* the same for a history drawn from LifecycleEvents only
MaxLifecycle == 5
\* the largest eventId / taskScheduledId / timerId a history event carries
MaxId == 2
\* the largest timestamp of an orchestratorStarted event
MaxTime == 2
\* the length up to which the list _suspended_events is followed
MaxBuf == 3
\* the number of start() calls that start a dispatcher thread
MaxStarts == 2
\* the number of work items the sidecar sends over all streams
MaxItems == 2
\* the same two numbers where the other one is what a behaviour explores
MaxWorkStarts == 1
MaxLifecycleItems == 1

(***************************************************************************)
(* Values.  Every value is a sequence of strings, so that any two can be   *)
(* compared.  A Python value is <<"py", repr>>, Python's None is None and  *)
(* the empty wire string (an absent StringValue) is Absent.  to_json wraps *)
(* a value and from_json unwraps it: encoding twice is visible.            *)
(***************************************************************************)
None == <<"None">>
Absent == <<>>
Py(r) == <<"py", r>>
PyValues == {Py("True"), Py("'x'")}

to_json(v) == <<"json">> \o v
from_json(s) == Tail(s)
is_empty(v) == v = Absent
get_string_value(v) == IF v = None THEN Absent ELSE v

(***************************************************************************)
(* Tasks (durabletask.task.CompletableTask).  A task object is named by    *)
(* its handle, the index at which it was created in ctx.tasks.             *)
(***************************************************************************)
NewTask == [state |-> "pending", result |-> None]
complete(t, v) == [t EXCEPT !.state = "complete", !.result = v]
fail(t, details) == [t EXCEPT !.state = "failed", !.result = details]
is_complete(t) == t.state = "complete"
is_failed(t) == t.state = "failed"
get_result(t) == t.result
\* the object a generator yields when it yields something that is no Task
NotATask == 0

(***************************************************************************)
(* Names.  str.upper on the event names the model uses.                    *)
(***************************************************************************)
EventNames == {"Approval", "approval"}
upper(n) == CASE n = "Approval" -> "APPROVAL"
              [] n = "approval" -> "APPROVAL"
              [] OTHER -> n

\* dict.get(key, None) on a dict of lists: None and [] are both falsy
DictGet(d, k) == IF k \in DOMAIN d THEN d[k] ELSE <<>>
DictSet(d, k, v) == (k :> v) @@ d
DictDel(d, k) == [x \in DOMAIN d \ {k} |-> d[x]]
EmptyDict == <<>>

(***************************************************************************)
(* Orchestrator actions (pb.OrchestratorAction), built by the helpers      *)
(* new_create_timer_action, new_schedule_task_action,                      *)
(* new_create_sub_orchestration_action, new_complete_orchestration_action. *)
(***************************************************************************)
NoAction == [id |-> 0, type |-> "none", name |-> "", input |-> Absent, fireAt |-> 0,
             instanceId |-> <<>>, status |-> "", result |-> Absent, failure |-> ""]
new_create_timer_action(id, fire_at) ==
    [NoAction EXCEPT !.id = id, !.type = "createTimer", !.fireAt = fire_at]
new_schedule_task_action(id, name, encoded_input) ==
    [NoAction EXCEPT !.id = id, !.type = "scheduleTask", !.name = name,
                     !.input = get_string_value(encoded_input)]
new_create_sub_orchestration_action(id, name, instance_id, encoded_input) ==
    [NoAction EXCEPT !.id = id, !.type = "createSubOrchestration", !.name = name,
                     !.instanceId = instance_id, !.input = get_string_value(encoded_input)]
new_complete_orchestration_action(id, status, result, failure_details) ==
    [NoAction EXCEPT !.id = id, !.type = "completeOrchestration", !.status = status,
                     !.result = get_string_value(result), !.failure = failure_details]

COMPLETED == "ORCHESTRATION_STATUS_COMPLETED"
FAILED == "ORCHESTRATION_STATUS_FAILED"
TERMINATED == "ORCHESTRATION_STATUS_TERMINATED"

(***************************************************************************)
(* _RuntimeOrchestrationContext.  _pending_actions is a dict in insertion  *)
(* order: a sequence of actions, no two with the same id.  _pending_tasks  *)
(* maps an id to a task handle.  tasks is the heap of task objects.  The   *)
(* fields h_* are history: they record what the context did and are read   *)
(* by no operation (h_recorded the ids recorded, h_waiters the tasks of     *)
(* wait_for_external_event, h_raised the eventRaised events handled,       *)
(* h_resumed the resumptions of the generator, h_inputs the inputs given   *)
(* to call_activity / call_sub_orchestrator).                              *)
(***************************************************************************)
NoGen == [fn |-> "None", at |-> 0, awaiting |-> 0]
Unset == -1

NewContext(instance_id) ==
    [_generator |-> NoGen,
     _previous_task |-> Unset,
     _is_replaying |-> TRUE,
     _is_complete |-> FALSE,
     _result |-> None,
     _pending_actions |-> <<>>,
     _pending_tasks |-> EmptyDict,
     _sequence_number |-> 0,
     _current_utc_datetime |-> 0,
     _instance_id |-> instance_id,
     _received_events |-> EmptyDict,
     _pending_events |-> EmptyDict,
     tasks |-> <<>>,
     h_recorded |-> <<>>,
     h_waiters |-> <<>>,
     h_raised |-> <<>>,
     h_resumed |-> <<>>,
     h_inputs |-> <<>>]

\* _pending_actions[action.id] = action
DictInsertMutant(pa, a) == <<a>> \o pa
DictInsert(pa, a) ==
    IF \E i \in 1..Len(pa) : pa[i].id = a.id
    THEN [i \in 1..Len(pa) |-> IF pa[i].id = a.id THEN a ELSE pa[i]]
    ELSE Append(pa, a)
\* _pending_actions.pop(id, None)
ActionAt(pa, id) ==
    IF \E i \in 1..Len(pa) : pa[i].id = id
    THEN pa[CHOOSE i \in 1..Len(pa) : pa[i].id = id]
    ELSE NoAction
RECURSIVE Without(_, _)
Without(pa, id) ==
    IF pa = <<>> THEN <<>>
    ELSE IF Head(pa).id = id THEN Without(Tail(pa), id)
    ELSE <<Head(pa)>> \o Without(Tail(pa), id)
PopActionMutant(pa, id) == pa
PopAction(pa, id) == Without(pa, id)

RecordAction(c, a) ==
    [c EXCEPT !._pending_actions = DictInsert(@, a),
              !.h_recorded = Append(@, a.id)]

next_sequence_number_mutant(c) == c._sequence_number + 2
next_sequence_number(c) == c._sequence_number + 1

set_complete(c, result, status, is_result_encoded) ==
    IF c._is_complete THEN c
    ELSE LET id == next_sequence_number(c)
             result_json == IF result = None THEN None
                            ELSE IF is_result_encoded THEN result ELSE to_json(result)
             action == new_complete_orchestration_action(id, status, result_json, "")
         IN RecordAction([c EXCEPT !._is_complete = TRUE, !._result = result,
                                   !._sequence_number = id], action)

set_failed(c, ex) ==
    IF c._is_complete THEN c
    ELSE LET id == next_sequence_number(c)
             action == new_complete_orchestration_action(id, FAILED, None, ex)
         IN RecordAction([c EXCEPT !._is_complete = TRUE, !._pending_actions = <<>>,
                                   !._sequence_number = id], action)

get_actions(c) == c._pending_actions

\* a call that allocates a task object: the new context and the task's handle
AllocTask(c, t) == [ctx |-> [c EXCEPT !.tasks = Append(@, t)], task |-> Len(c.tasks) + 1]
\* self._pending_tasks[id] = task
PendTask(r, id) == [r EXCEPT !.ctx._pending_tasks = DictSet(@, id, r.task)]
\* self._pending_actions[id] = action, with the id just drawn
Schedule(c, action) ==
    PendTask(AllocTask(RecordAction([c EXCEPT !._sequence_number = action.id], action), NewTask),
             action.id)

create_timer(c, delta) ==
    Schedule(c, new_create_timer_action(next_sequence_number(c),
                                        c._current_utc_datetime + delta))

\* bool(v): None, 0, False, the empty string and the empty collections are falsy
Truthy(v) == v \notin {None, Py("0"), Py("False"), Py("''"), Py("[]"), Py("{}")}

\* history: the input a call was given and the input of the action it recorded
WithInput(r, input) ==
    [r EXCEPT !.ctx.h_inputs =
         Append(@, [input |-> input,
                    encoded |-> r.ctx._pending_actions[Len(r.ctx._pending_actions)].input])]

call_activity(c, name, input) ==
    WithInput(Schedule(c, new_schedule_task_action(
                              next_sequence_number(c), name,
                              IF Truthy(input) THEN to_json(input) ELSE None)),
              input)

call_sub_orchestrator(c, name, input) ==
    WithInput(Schedule(c, new_create_sub_orchestration_action(
                              next_sequence_number(c), name, <<c._instance_id, "sub">>,
                              IF Truthy(input) THEN to_json(input) ELSE None)),
              input)

\* the branch that takes a buffered event: event_list.pop(0), del if empty, complete
TakeReceived(r, event_name, rest) ==
    [r EXCEPT !.ctx._received_events = IF rest = <<>> THEN DictDel(@, event_name)
                                       ELSE DictSet(@, event_name, rest),
              !.ctx.h_waiters = Append(@, [name |-> event_name, task |-> r.task])]
\* the branch that queues the task: task_list.append(external_event_task)
QueueWaiter(r, event_name, task_list) ==
    [r EXCEPT !.ctx._pending_events = DictSet(@, event_name, Append(task_list, r.task)),
              !.ctx.h_waiters = Append(@, [name |-> event_name, task |-> r.task])]

wait_for_external_event(c, name) ==
    IF DictGet(c._received_events, upper(name)) # <<>>
    THEN TakeReceived(AllocTask(c, complete(NewTask,
                                   Head(DictGet(c._received_events, upper(name))).data)),
                      upper(name), Tail(DictGet(c._received_events, upper(name))))
    ELSE QueueWaiter(AllocTask(c, NewTask), upper(name),
                     DictGet(c._pending_events, upper(name)))

(***************************************************************************)
(* The registry: a fixed set of deterministic orchestrator functions.  A   *)
(* generator function is a list of statements; a statement calls one       *)
(* operation of the context and then                                       *)
(*   mode "yield": yields the task outside any try block,                  *)
(*   mode "try":   yields the task inside try/except and goes on after a   *)
(*                 caught failure,                                         *)
(*   mode "fire":  keeps the task without yielding it.                     *)
(* op "raise" raises a user exception and op "yieldbad" yields an object   *)
(* that is no Task.  A generator returns the value its last yield received *)
(* (None when it received none).  A plain function returns a value.        *)
(***************************************************************************)
Stmt(op, name, mode) == [op |-> op, name |-> name, mode |-> mode, input |-> None]

Registry ==
    [plain  |-> [generator |-> FALSE, body |-> <<>>, value |-> Py("'Hello'")],
     catch  |-> [generator |-> TRUE, value |-> None,
                 body |-> <<[Stmt("activity", "A", "try") EXCEPT !.input = Py("'x'")],
                            Stmt("activity", "B", "yield")>>],
     wait   |-> [generator |-> TRUE, value |-> None,
                 body |-> <<Stmt("wait", "approval", "fire"), Stmt("wait", "Approval", "yield"),
                            Stmt("timer", "", "yield")>>],
     recover |-> [generator |-> TRUE, value |-> None,
                 body |-> <<[Stmt("activity", "A", "try") EXCEPT !.input = Py("''")],
                            Stmt("timer", "", "fire"),
                            Stmt("wait", "approval", "yield")>>],
     fan    |-> [generator |-> TRUE, value |-> None,
                 body |-> <<[Stmt("suborch", "S", "fire") EXCEPT !.input = Py("0")],
                            Stmt("timer", "", "fire"),
                            Stmt("activity", "A", "yield")>>],
     faulty |-> [generator |-> TRUE, value |-> None,
                 body |-> <<Stmt("timer", "", "yield"), Stmt("yieldbad", "", "yield"),
                            Stmt("raise", "", "yield")>>]]

OrchestratorNames == DOMAIN Registry
get_orchestrator(name) == IF name \in OrchestratorNames THEN name ELSE "None"
Body(fn) == Registry[fn].body

\* ctx.<op>(...) as called by a statement
CallOp(c, s) ==
    CASE s.op = "timer" -> create_timer(c, 1)
      [] s.op = "activity" -> call_activity(c, s.name, s.input)
      [] s.op = "suborch" -> call_sub_orchestrator(c, s.name, s.input)
      [] s.op = "wait" -> wait_for_external_event(c, s.name)

(***************************************************************************)
(* The generator protocol.  Each operator returns                          *)
(*   [ctx, out, task, val]: out = "yield" with the yielded task,           *)
(*   out = "stop" (StopIteration) with the return value val, or            *)
(*   out = "raise" with the exception val.                                 *)
(* ctx._generator.at is the statement at whose yield the generator is      *)
(* suspended (Len(body) + 1 once it has finished).                         *)
(***************************************************************************)
GenAt(fn, i, task) == [fn |-> fn, at |-> i, awaiting |-> task]
GenDone(fn) == GenAt(fn, Len(Body(fn)) + 1, 0)

RECURSIVE RunBody(_, _, _, _)
\* after the call r of statement i: go on, or yield the task
AfterCall(r, fn, i, v) ==
    IF Body(fn)[i].mode = "fire" THEN RunBody(r.ctx, fn, i + 1, v)
    ELSE [ctx |-> [r.ctx EXCEPT !._generator = GenAt(fn, i, r.task)],
          out |-> "yield", task |-> r.task, val |-> None]

RunBody(c, fn, i, v) ==
    IF i > Len(Body(fn))
    THEN [ctx |-> [c EXCEPT !._generator = GenDone(fn)], out |-> "stop", task |-> 0, val |-> v]
    ELSE CASE Body(fn)[i].op = "raise" ->
                [ctx |-> [c EXCEPT !._generator = GenDone(fn)],
                 out |-> "raise", task |-> 0, val |-> "UserError"]
           [] Body(fn)[i].op = "yieldbad" ->
                [ctx |-> [c EXCEPT !._generator = GenAt(fn, i, NotATask)],
                 out |-> "yield", task |-> NotATask, val |-> None]
           [] OTHER -> AfterCall(CallOp(c, Body(fn)[i]), fn, i, v)

Finished(g) == g.at > Len(Body(g.fn))

\* next(generator) on a generator just created from fn
gen_next(c, fn) == RunBody(c, fn, 1, None)

\* history: the generator is resumed, by send or by throw, with the outcome of a task
Resumed(c, how) ==
    [c EXCEPT !.h_resumed = Append(@, [how |-> how, task |-> c._previous_task,
                                       awaiting |-> c._generator.awaiting,
                                       state |-> IF c._generator.awaiting = NotATask
                                                 THEN "none"
                                                 ELSE c.tasks[c._generator.awaiting].state])]

\* generator.send(value)
gen_send(c, value) ==
    IF Finished(c._generator) THEN [ctx |-> c, out |-> "stop", task |-> 0, val |-> None]
    ELSE RunBody(Resumed(c, "send"), c._generator.fn, c._generator.at + 1, value)

\* generator.throw(exception)
gen_throw(c, ex) ==
    IF Finished(c._generator) THEN [ctx |-> c, out |-> "raise", task |-> 0, val |-> ex]
    ELSE IF Body(c._generator.fn)[c._generator.at].mode = "try"
    THEN RunBody(Resumed(c, "throw"), c._generator.fn, c._generator.at + 1, None)
    ELSE [ctx |-> [Resumed(c, "throw") EXCEPT !._generator = GenDone(c._generator.fn)],
          out |-> "raise", task |-> 0, val |-> ex]

(***************************************************************************)
(* _RuntimeOrchestrationContext.run and resume.  Their result is           *)
(* [ctx, exc, val]: exc is the exception that escapes ("none" when none),  *)
(* val the value a StopIteration carries.                                  *)
(***************************************************************************)
NoExc == "none"
Ok(c) == [ctx |-> c, exc |-> NoExc, val |-> None]
Raise(c, ex) == [ctx |-> c, exc |-> ex, val |-> None]
Stop(c, v) == [ctx |-> c, exc |-> "StopIteration", val |-> v]
FromGen(r) == IF r.out = "stop" THEN Stop(r.ctx, r.val) ELSE Raise(r.ctx, r.val)

\* task = next(generator); self._previous_task = task
AfterNext(r) ==
    IF r.out = "yield" THEN Ok([r.ctx EXCEPT !._previous_task = r.task])
    ELSE FromGen(r)
run(c, fn) == AfterNext(gen_next(c, fn))

RECURSIVE SendLoop(_)
\* the body of `while True` after next_task = self._generator.send(...)
AfterSend(r) ==
    IF r.out # "yield" THEN FromGen(r)
    ELSE IF r.task = NotATask THEN Raise(r.ctx, "TypeError")
    ELSE IF is_complete(r.ctx.tasks[r.task])
    THEN SendLoop([r.ctx EXCEPT !._previous_task = r.task])
    ELSE Ok([r.ctx EXCEPT !._previous_task = r.task])
SendLoop(c) == AfterSend(gen_send(c, get_result(c.tasks[c._previous_task])))

\* self._generator.throw(self._previous_task.get_exception()): the task it returns is dropped
AfterThrow(r) == IF r.out = "yield" THEN Ok(r.ctx) ELSE FromGen(r)
ThrowOnce(c) == AfterThrow(gen_throw(c, "TaskFailedError"))

resume(c) ==
    IF c._generator = NoGen THEN Raise(c, "TypeError")
    ELSE IF c._previous_task \in {NotATask, Unset} THEN Raise(c, "AttributeError")
    ELSE IF is_failed(c.tasks[c._previous_task]) THEN ThrowOnce(c)
    ELSE IF is_complete(c.tasks[c._previous_task]) THEN SendLoop(c)
    ELSE Ok(c)

(***************************************************************************)
(* History events (pb.HistoryEvent).  id is eventId for the acknowledging  *)
(* events and timerId / taskScheduledId for the completing ones; data is   *)
(* the wire string of input / result.                                      *)
(***************************************************************************)
Event(type, id, name, data, ts) ==
    [type |-> type, id |-> id, name |-> name, data |-> data, ts |-> ts]
Ids == 1..MaxId
Payloads == {to_json(v) : v \in PyValues}
ActivityNames == {"A", "B"}
SubOrchestratorNames == {"S", "T"}
AckTypes == {"timerCreated", "taskScheduled", "subOrchestrationInstanceCreated"}
CompletionTypes == {"timerFired", "taskCompleted", "taskFailed",
                    "subOrchestrationInstanceCompleted", "subOrchestrationInstanceFailed"}

HistoryEvents ==
         {Event("orchestratorStarted", 0, "", Absent, t) : t \in 1..MaxTime}
    \cup {Event("executionStarted", 0, n, Absent, 0) : n \in OrchestratorNames \cup {"unregistered"}}
    \cup {Event("timerCreated", i, "", Absent, 0) : i \in Ids}
    \cup {Event("taskScheduled", i, n, Absent, 0) : i \in Ids, n \in ActivityNames}
    \cup {Event("subOrchestrationInstanceCreated", i, n, Absent, 0) :
              i \in Ids, n \in SubOrchestratorNames}
    \cup {Event("timerFired", i, "", Absent, 0) : i \in Ids}
    \cup {Event("taskCompleted", i, "", d, 0) : i \in Ids, d \in {Absent, to_json(Py("True"))}}
    \cup {Event("taskFailed", i, "", Absent, 0) : i \in Ids}
    \cup {Event("subOrchestrationInstanceCompleted", i, "", to_json(Py("True")), 0) : i \in Ids}
    \cup {Event("subOrchestrationInstanceFailed", i, "", Absent, 0) : i \in Ids}
    \cup {Event("eventRaised", 0, n, d, 0) : n \in EventNames, d \in Payloads}
    \cup {Event("executionSuspended", 0, "", Absent, 0),
          Event("executionResumed", 0, "", Absent, 0),
          Event("genericEvent", 0, "", Absent, 0)}
    \cup {Event("executionTerminated", 0, "", d, 0) : d \in {Absent, to_json(Py("True"))}}

\* the events of a history about suspension: a sub-alphabet followed further
LifecycleEvents ==
    {Event("executionSuspended", 0, "", Absent, 0),
     Event("executionResumed", 0, "", Absent, 0),
     Event("executionTerminated", 0, "", to_json(Py("True")), 0),
     Event("executionStarted", 0, "wait", Absent, 0),
     Event("executionStarted", 0, "catch", Absent, 0),
     Event("executionStarted", 0, "plain", Absent, 0),
     Event("taskCompleted", 1, "", to_json(Py("True")), 0),
     Event("eventRaised", 0, "Approval", to_json(Py("True")), 0),
     Event("eventRaised", 0, "approval", to_json(Py("'x'")), 0)}

\* the events of a history that suspends and resumes, followed to the same length
SuspensionEvents ==
    {Event("executionSuspended", 0, "", Absent, 0),
     Event("executionResumed", 0, "", Absent, 0),
     Event("executionStarted", 0, "wait", Absent, 0),
     Event("eventRaised", 0, "Approval", to_json(Py("True")), 0)}

_is_suspendable_mutant(e) == e.type # "executionResumed"
_is_suspendable(e) == e.type \notin {"executionResumed", "executionTerminated"}

(***************************************************************************)
(* The non-determinism errors.  An exception is named by its class and,    *)
(* for NonDeterminismError, the message template.                          *)
(***************************************************************************)
_get_non_determinism_error == "NonDeterminismError: no action with this ID"
_get_wrong_action_name_error == "NonDeterminismError: wrong action name"
\* the method name, or the exception _get_method_name_for_action raises
_get_method_name_for_action(action) ==
    CASE action.type = "scheduleTask" -> "call_activity"
      [] action.type = "createTimer" -> "create_timer"
      [] action.type = "createSubOrchestration" -> "call_sub_orchestrator"
      [] OTHER -> "NotImplementedError"
_get_wrong_action_type_error(action) ==
    IF _get_method_name_for_action(action) = "NotImplementedError"
    THEN "NotImplementedError"
    ELSE "NonDeterminismError: wrong action type"

(***************************************************************************)
(* _OrchestrationExecutor.process_event, one branch per event kind.  The   *)
(* result is [ctx, exc, val] as for resume.                                *)
(***************************************************************************)
\* timerCreated / taskScheduled / subOrchestrationInstanceCreated
CheckedMutant(c1, action, e, variant, named) ==
    IF action = NoAction THEN Raise(c1, _get_non_determinism_error)
    ELSE IF action.type # variant THEN Raise(c1, _get_wrong_action_type_error(action))
    ELSE Ok(c1)
Checked(c1, action, e, variant, named) ==
    IF action = NoAction THEN Raise(c1, _get_non_determinism_error)
    ELSE IF action.type # variant THEN Raise(c1, _get_wrong_action_type_error(action))
    ELSE IF named /\ action.name # e.name THEN Raise(c1, _get_wrong_action_name_error)
    ELSE Ok(c1)
Acknowledge(c, e, variant, named) ==
    Checked([c EXCEPT !._pending_actions = PopAction(@, e.id)],
            ActionAt(c._pending_actions, e.id), e, variant, named)

\* timerFired / taskCompleted / taskFailed / subOrchestrationInstanceCompleted / ...Failed
SettleMutant(c, e, failed, result) ==
    IF e.id \notin DOMAIN c._pending_tasks THEN Raise(c, "OrchestrationStateError")
    ELSE resume([c EXCEPT !._pending_tasks = DictDel(@, e.id),
                          !.tasks[c._pending_tasks[e.id]] =
                              IF failed THEN fail(@, <<"failureDetails">>)
                              ELSE complete(@, result)])
Settle(c, e, failed, result) ==
    IF e.id \notin DOMAIN c._pending_tasks THEN Ok(c)
    ELSE resume([c EXCEPT !._pending_tasks = DictDel(@, e.id),
                          !.tasks[c._pending_tasks[e.id]] =
                              IF failed THEN fail(@, <<"failureDetails">>)
                              ELSE complete(@, result)])

Decoded(data) == IF is_empty(data) THEN None ELSE from_json(data)

ExecutionStarted(c, e) ==
    LET fn == get_orchestrator(e.name) IN
    IF fn = "None" THEN Raise(c, "OrchestratorNotRegisteredError")
    ELSE IF Registry[fn].generator THEN run(c, fn)
    ELSE Ok(set_complete(c, Registry[fn].value, COMPLETED, FALSE))

\* history: an eventRaised event got past the suspension gate
Raised(c, e) ==
    [c EXCEPT !.h_raised = Append(@, [name |-> upper(e.name), data |-> Decoded(e.data)])]
\* event_task = task_list.pop(0); event_task.complete(decoded_result); del if empty
GiveToWaiterMutant(c, event_name, task_list, decoded_result) ==
    [c EXCEPT !.tasks[task_list[Len(task_list)]] = complete(@, decoded_result),
              !._pending_events = IF Len(task_list) = 1 THEN DictDel(@, event_name)
                                  ELSE DictSet(@, event_name,
                                               SubSeq(task_list, 1, Len(task_list) - 1))]
GiveToWaiterKeepsList(c, event_name, task_list, decoded_result) ==
    [c EXCEPT !.tasks[Head(task_list)] = complete(@, decoded_result),
              !._pending_events = DictSet(@, event_name, Tail(task_list))]
GiveToWaiter(c, event_name, task_list, decoded_result) ==
    [c EXCEPT !.tasks[Head(task_list)] = complete(@, decoded_result),
              !._pending_events = IF Tail(task_list) = <<>> THEN DictDel(@, event_name)
                                  ELSE DictSet(@, event_name, Tail(task_list))]
\* event_list.append(_ExternalEvent(event.eventRaised.name, decoded_result))
BufferEvent(c, event_name, e) ==
    [c EXCEPT !._received_events =
         DictSet(@, event_name, Append(DictGet(c._received_events, event_name),
                                       [name |-> e.name, data |-> Decoded(e.data)]))]

EventRaised(c, e) ==
    IF DictGet(c._pending_events, upper(e.name)) # <<>>
    THEN resume(GiveToWaiter(Raised(c, e), upper(e.name),
                             DictGet(c._pending_events, upper(e.name)), Decoded(e.data)))
    ELSE Ok(BufferEvent(Raised(c, e), upper(e.name), e))

\* ctx.current_utc_datetime = event.timestamp.ToDatetime()
SetClockMutant(c, e) ==
    [c EXCEPT !._current_utc_datetime = IF @ = 0 THEN e.ts ELSE @]
SetClock(c, e) == [c EXCEPT !._current_utc_datetime = e.ts]

\* the branches that touch only the context
Dispatch(c, e) ==
    CASE e.type = "orchestratorStarted" -> Ok(SetClock(c, e))
      [] e.type = "executionStarted" -> ExecutionStarted(c, e)
      [] e.type = "timerCreated" -> Acknowledge(c, e, "createTimer", FALSE)
      [] e.type = "timerFired" -> Settle(c, e, FALSE, None)
      [] e.type = "taskScheduled" -> Acknowledge(c, e, "scheduleTask", TRUE)
      [] e.type = "taskCompleted" -> Settle(c, e, FALSE, Decoded(e.data))
      [] e.type = "taskFailed" -> Settle(c, e, TRUE, None)
      [] e.type = "subOrchestrationInstanceCreated" ->
             Acknowledge(c, e, "createSubOrchestration", TRUE)
      [] e.type = "subOrchestrationInstanceCompleted" -> Settle(c, e, FALSE, Decoded(e.data))
      [] e.type = "subOrchestrationInstanceFailed" -> Settle(c, e, TRUE, None)
      [] e.type = "eventRaised" -> EventRaised(c, e)
      [] e.type = "executionSuspended" -> Ok(c)
      [] e.type = "executionResumed" -> Ok(c)
      [] e.type = "executionTerminated" ->
             Ok(set_complete(c, IF is_empty(e.data) THEN None ELSE e.data, TERMINATED, TRUE))
      [] OTHER -> Raise(c, "OrchestrationStateError")

\* except StopIteration as generatorStopped: ctx.set_complete(generatorStopped.value, ...)
CatchStop(r, x, e) ==
    [ctx |-> IF r.exc = "StopIteration"
             THEN set_complete(r.ctx, r.val, COMPLETED, FALSE) ELSE r.ctx,
     exe |-> CASE e.type = "executionSuspended" -> [x EXCEPT !._is_suspended = TRUE]
               [] e.type = "executionResumed" -> [x EXCEPT !._is_suspended = FALSE]
               [] OTHER -> x,
     exc |-> IF r.exc = "StopIteration" THEN NoExc ELSE r.exc,
     drain |-> e.type = "executionResumed",
     gated |-> FALSE]

\* process_event up to the drain loop of executionResumed: [ctx, exe, exc, drain, gated]
process_event(c, x, e) ==
    IF x._is_suspended /\ _is_suspendable(e)
    THEN [ctx |-> c, exe |-> [x EXCEPT !._suspended_events = Append(@, e)],
          exc |-> NoExc, drain |-> FALSE, gated |-> TRUE]
    ELSE IF e.type = "executionResumed" /\ ~x._is_suspended
    THEN [ctx |-> c, exe |-> x, exc |-> "OrchestrationStateError", drain |-> FALSE,
          gated |-> FALSE]
    ELSE CatchStop(Dispatch(c, e), x, e)

(***************************************************************************)
(* State.                                                                  *)
(*   ctx      the _RuntimeOrchestrationContext of the execute call         *)
(*   exe      the _OrchestrationExecutor: _is_suspended, _suspended_events *)
(*   phase    where execute is: "init" (not called yet), "replay" (the     *)
(*            loop over old_events), "live" (the loop over new_events),    *)
(*            "except" (an exception reached the except clause), "return"  *)
(*            (after the loops), "done" (returned), "raised" (execute      *)
(*            itself raised), "diverged" (the drain loop does not end)     *)
(*   drainIdx the position of the loop `for e in self._suspended_events`   *)
(*            (0 when no such loop runs)                                   *)
(*   nOld, nNew  the events of old_events and new_events fed so far        *)
(*   exc      the exception that escaped process_event ("none" if none)    *)
(*   returned the list execute returned                                    *)
(*   last     history: the event process_event handled last, the pending   *)
(*            action it found under the event's id, whether the suspension *)
(*            gate buffered it, the exception it raised, and the context   *)
(*            as process_event left it                                     *)
(***************************************************************************)
(*   alphabet the set the events of this call's histories are drawn from:    *)
(*            "all" (HistoryEvents, at most MaxHist events) or "lifecycle" *)
(*            (LifecycleEvents, at most MaxLifecycle events); FairSpec     *)
(*            draws them from SuspensionEvents ("suspension")              *)
(*   acks     history: the acknowledging events process_event handled, each *)
(*            with the variant of the pending action it popped             *)
(*   hist     history: started, the timestamp of the last orchestratorStarted *)
(*            event that got past the suspension gate (0 when none did), and *)
(*            resumedWith, the list _suspended_events as it was when the   *)
(*            executionResumed event being handled arrived; bufOld, for    *)
(*            each event of _suspended_events, whether it is one of        *)
(*            old_events; latched, whether _is_complete went from false to *)
(*            true during the loop over new_events                         *)
(*   res      the OrchestratorResponse _execute_orchestrator built         *)
(*   sent     the calls of stub.CompleteOrchestratorTask made, in order    *)
VARIABLES ctx, exe, phase, drainIdx, nOld, nNew, exc, returned, last, alphabet, acks,
          hist, res, sent

vars == <<ctx, exe, phase, drainIdx, nOld, nNew, exc, returned, last, alphabet, acks,
          hist, res, sent>>

(***************************************************************************)
(* State of a TaskHubGrpcWorker, its dispatcher threads and the sidecar.   *)
(*   _is_running, _shutdown, _response_stream, _runLoop, registry          *)
(*            the fields of the worker; _shutdown is the Event's flag,     *)
(*            _runLoop the thread start() created last, _response_stream   *)
(*            the thread whose latest stream the field refers to           *)
(*   pc       where each dispatcher thread is in run_loop                  *)
(*   stream   per thread, the stream it opened last: its state and the     *)
(*            work item the sidecar sent that the thread has not read yet  *)
(*   api      where the thread that calls the worker's methods is: "idle"  *)
(*            between calls, or inside stop()                              *)
(*   items    the work items read from the streams, with what became of    *)
(*            each in the thread pool; late and known are history: the     *)
(*            item was read after stop() had returned, the activity it     *)
(*            names was registered when its handler ran                    *)
(*   calls    the calls of CompleteOrchestratorTask / CompleteActivityTask *)
(*   wh       history of the worker, read by no action, and focus: what    *)
(*            the behaviour explores, "lifecycle" (up to MaxStarts         *)
(*            dispatchers, MaxLifecycleItems work items of one kind) or    *)
(*            "work" (MaxWorkStarts dispatchers, MaxItems work items of    *)
(*            any kind, a sidecar that stays up, a caller whose calls      *)
(*            raise nothing)                                               *)
(***************************************************************************)
VARIABLES _is_running, _shutdown, _response_stream, _runLoop, registry,
          pc, stream, api, items, calls, wh

wvars == <<_is_running, _shutdown, _response_stream, _runLoop, registry,
           pc, stream, api, items, calls, wh>>

Threads == 1..MaxStarts
\* no thread: _response_stream is None, no dispatcher was started
NoThread == 0
NoStreamYet == [state |-> "none", inbox |-> <<>>]
NoCall == [op |-> "none", running |-> FALSE, error |-> NoExc, changed |-> FALSE,
           spawned |-> FALSE]
ActivityFns == {"echo", "boom"}

\* TaskHubGrpcWorker.__init__
WorkerIdle(focus) ==
    /\ _is_running = FALSE
    /\ _shutdown = FALSE
    /\ _response_stream = NoThread
    /\ _runLoop = NoThread
    /\ registry = [orchestrators |-> {}, activities |-> {}]
    /\ pc = [t \in Threads |-> "unborn"]
    /\ stream = [t \in Threads |-> NoStreamYet]
    /\ api = "idle"
    /\ items = <<>>
    /\ calls = <<>>
    /\ wh = [focus |-> focus,
             stopCalled |-> [t \in Threads |-> FALSE],
             stopped |-> [t \in Threads |-> FALSE],
             why |-> [t \in Threads |-> "none"],
             lastCall |-> NoCall,
             registryAtStart |-> [orchestrators |-> {}, activities |-> {}],
             spawned |-> 0]

Alphabet == CASE alphabet = "all" -> HistoryEvents
              [] alphabet = "lifecycle" -> LifecycleEvents
              [] alphabet = "suspension" -> SuspensionEvents
MaxEvents == IF alphabet = "all" THEN MaxHist ELSE MaxLifecycle
MoreEvents == nOld + nNew < MaxEvents
\* old_events can take one more event and leave room for the one new_events must have
MoreOldEvents == nOld + 1 < MaxEvents

InstanceId == "instance"
NoEvent == Event("none", 0, "", Absent, 0)
NoLast == [ev |-> NoEvent, pre |-> NoAction, gated |-> FALSE, exc |-> NoExc,
           completeBefore |-> FALSE, pendingAfter |-> <<>>,
           suspendedBefore |-> FALSE, changed |-> FALSE, appended |-> FALSE,
           seqBefore |-> 0, old |-> FALSE, replaying |-> FALSE, latchedBefore |-> FALSE,
           resumedBefore |-> 0, hadTask |-> FALSE, resettled |-> FALSE]
NoHist == [started |-> 0, resumedWith |-> <<>>, bufOld |-> <<>>, latched |-> FALSE]
NoResponse == [instanceId |-> "", actions |-> <<>>]

InitOver(alphabets) ==
    /\ ctx = NewContext(InstanceId)
    /\ exe = [_is_suspended |-> FALSE, _suspended_events |-> <<>>]
    /\ phase = "init"
    /\ drainIdx = 0
    /\ nOld = 0
    /\ nNew = 0
    /\ exc = NoExc
    /\ returned = <<>>
    /\ last = NoLast
    /\ alphabet \in alphabets
    /\ acks = {}
    /\ hist = NoHist
    /\ res = NoResponse
    /\ sent = <<>>
    /\ WorkerIdle("lifecycle")

Init == InitOver({"all", "lifecycle"})

\* execute(instance_id, old_events, []): new_events is empty
ExecuteEmpty ==
    /\ phase = "init"
    /\ phase' = "raised"
    /\ exc' = "OrchestrationStateError"
    /\ UNCHANGED <<ctx, exe, drainIdx, nOld, nNew, returned, last, alphabet, acks, hist, res, sent>>
    /\ UNCHANGED wvars

\* execute(instance_id, old_events, new_events) with new_events non-empty
ExecuteBegin ==
    /\ phase = "init"
    /\ ctx' = NewContext(InstanceId)
    /\ phase' = "replay"
    /\ UNCHANGED <<exe, drainIdx, nOld, nNew, exc, returned, last, alphabet, acks, hist, res, sent>>
    /\ UNCHANGED wvars

\* whether the event process_event is about to be called with is one of old_events
FromOld == IF drainIdx >= 1 THEN hist.bufOld[drainIdx] ELSE phase = "replay"

\* the state after a call of process_event with the result r
Processed(r, e) ==
    /\ ctx' = r.ctx
    /\ exe' = r.exe
    /\ exc' = r.exc
    /\ last' = [ev |-> e,
                pre |-> IF r.gated THEN NoAction ELSE ActionAt(ctx._pending_actions, e.id),
                gated |-> r.gated, exc |-> r.exc, completeBefore |-> ctx._is_complete,
                pendingAfter |-> r.ctx._pending_actions,
                suspendedBefore |-> exe._is_suspended,
                changed |-> r.ctx # ctx,
                appended |-> r.exe._suspended_events = Append(exe._suspended_events, e),
                seqBefore |-> ctx._sequence_number,
                old |-> FromOld, replaying |-> ctx._is_replaying,
                latchedBefore |-> hist.latched,
                resumedBefore |-> Len(ctx.h_resumed),
                hadTask |-> e.id \in DOMAIN ctx._pending_tasks,
                resettled |-> \E h \in DOMAIN ctx.tasks :
                                  ctx.tasks[h].state # "pending" /\ r.ctx.tasks[h] # ctx.tasks[h]]
    /\ hist' = [started |-> IF e.type = "orchestratorStarted" /\ ~r.gated
                            THEN e.ts ELSE hist.started,
                resumedWith |-> IF r.drain THEN exe._suspended_events
                                ELSE hist.resumedWith,
                bufOld |-> IF r.gated THEN Append(hist.bufOld, FromOld) ELSE hist.bufOld,
                latched |-> \/ hist.latched
                            \/ phase = "live" /\ ~ctx._is_complete /\ r.ctx._is_complete]
    /\ IF r.exc # NoExc
       THEN phase' = "except" /\ drainIdx' = drainIdx
       ELSE IF r.drain
       THEN phase' = phase /\ drainIdx' = 1
       ELSE /\ drainIdx' = IF drainIdx = 0 THEN 0 ELSE drainIdx + 1
            /\ phase' = IF phase = "live" /\ drainIdx = 0 /\ r.ctx._is_complete
                        THEN "return" ELSE phase
    /\ acks' = IF e.type \in AckTypes /\ ~r.gated
               THEN acks \cup {[type |-> e.type, id |-> e.id,
                                popped |-> ActionAt(ctx._pending_actions, e.id).type]}
               ELSE acks
    /\ UNCHANGED <<returned, alphabet, res, sent>>
    /\ UNCHANGED wvars

\* one call self.process_event(ctx, e) made by a loop of execute or by the drain loop
Process(e) == Processed(process_event(ctx, exe, e), e)

\* for old_event in old_events: self.process_event(ctx, old_event)
ReplayEvent ==
    /\ phase = "replay" /\ drainIdx = 0
    /\ MoreOldEvents
    /\ nOld' = nOld + 1 /\ nNew' = nNew
    /\ \E e \in Alphabet : Process(e)

\* ctx._is_replaying = False, between the two loops
StartLive ==
    /\ phase = "replay" /\ drainIdx = 0
    /\ MoreEvents
    /\ ctx' = [ctx EXCEPT !._is_replaying = FALSE]
    /\ phase' = "live"
    /\ UNCHANGED <<exe, drainIdx, nOld, nNew, exc, returned, last, alphabet, acks, hist, res, sent>>
    /\ UNCHANGED wvars

\* for new_event in new_events: self.process_event(ctx, new_event); break if complete
LiveEvent ==
    /\ phase = "live" /\ drainIdx = 0
    /\ MoreEvents
    /\ nNew' = nNew + 1 /\ nOld' = nOld
    /\ \E e \in Alphabet : Process(e)

\* new_events is exhausted
EndOfNewEvents ==
    /\ phase = "live" /\ drainIdx = 0
    /\ nNew >= 1
    /\ phase' = "return"
    /\ UNCHANGED <<ctx, exe, drainIdx, nOld, nNew, exc, returned, last, alphabet, acks, hist, res, sent>>
    /\ UNCHANGED wvars

\* for e in self._suspended_events: self.process_event(ctx, e)
DrainStep ==
    /\ phase \in {"replay", "live"}
    /\ drainIdx >= 1 /\ drainIdx <= Len(exe._suspended_events)
    /\ ~(exe._is_suspended /\ Len(exe._suspended_events) >= MaxBuf)
    /\ Process(exe._suspended_events[drainIdx])
    /\ UNCHANGED <<nOld, nNew>>

\* the loop appends to the list it iterates over: past MaxBuf it is not followed
DrainDiverges ==
    /\ phase \in {"replay", "live"}
    /\ drainIdx >= 1 /\ drainIdx <= Len(exe._suspended_events)
    /\ exe._is_suspended /\ Len(exe._suspended_events) >= MaxBuf
    /\ phase' = "diverged"
    /\ UNCHANGED <<ctx, exe, drainIdx, nOld, nNew, exc, returned, last, alphabet, acks, hist, res, sent>>
    /\ UNCHANGED wvars

\* self._suspended_events = [], then back in the loop of execute
DrainEnd ==
    /\ phase \in {"replay", "live"}
    /\ drainIdx >= 1 /\ drainIdx > Len(exe._suspended_events)
    /\ exe' = [exe EXCEPT !._suspended_events = <<>>]
    /\ drainIdx' = 0
    /\ phase' = IF phase = "live" /\ ctx._is_complete THEN "return" ELSE phase
    /\ hist' = [hist EXCEPT !.resumedWith = <<>>, !.bufOld = <<>>]
    /\ UNCHANGED <<ctx, nOld, nNew, exc, returned, last, alphabet, acks, res, sent>>
    /\ UNCHANGED wvars

\* except Exception as ex: ctx.set_failed(ex)
Catch ==
    /\ phase = "except"
    /\ ctx' = set_failed(ctx, exc)
    /\ phase' = "return"
    /\ drainIdx' = 0
    /\ UNCHANGED <<exe, nOld, nNew, exc, returned, last, alphabet, acks, hist, res, sent>>
    /\ UNCHANGED wvars

\* actions = ctx.get_actions(); return actions
Return ==
    /\ phase = "return"
    /\ returned' = get_actions(ctx)
    /\ phase' = "done"
    /\ UNCHANGED <<ctx, exe, drainIdx, nOld, nNew, exc, last, alphabet, acks, hist, res, sent>>
    /\ UNCHANGED wvars

(***************************************************************************)
(* TaskHubGrpcWorker._execute_orchestrator around the execute call above.  *)
(***************************************************************************)
\* the empty string passed as the result of the failure action
EmptyString == <<"">>
\* pb.OrchestratorResponse(instanceId=req.instanceId, actions=actions)
OrchestratorResponse(instance_id, actions) ==
    [instanceId |-> instance_id, actions |-> actions]
\* except Exception as ex: the response that reports the failure
FailedResponseMutant(instance_id, ex) == OrchestratorResponse(instance_id, <<>>)
FailedResponse(instance_id, ex) ==
    OrchestratorResponse(instance_id,
        <<new_complete_orchestration_action(-1, FAILED, EmptyString, ex)>>)

\* res = pb.OrchestratorResponse(...), from the returned list or in the except clause
BuildResponse ==
    /\ phase \in {"done", "raised"}
    /\ res = NoResponse
    /\ res' = IF phase = "done" THEN OrchestratorResponse(InstanceId, returned)
              ELSE FailedResponse(InstanceId, exc)
    /\ UNCHANGED <<ctx, exe, phase, drainIdx, nOld, nNew, exc, returned, last, alphabet,
                   acks, hist, sent>>
    /\ UNCHANGED wvars

\* stub.CompleteOrchestratorTask(res): the call returns, or raises and is logged
CompleteOrchestratorTask ==
    /\ res # NoResponse
    /\ sent = <<>>
    /\ \E delivered \in BOOLEAN :
           sent' = Append(sent, [res |-> res, delivered |-> delivered])
    /\ UNCHANGED <<ctx, exe, phase, drainIdx, nOld, nNew, exc, returned, last, alphabet,
                   acks, hist, res>>
    /\ UNCHANGED wvars

Next ==
    \/ ExecuteEmpty
    \/ ExecuteBegin
    \/ ReplayEvent
    \/ StartLive
    \/ LiveEvent
    \/ EndOfNewEvents
    \/ DrainStep
    \/ DrainDiverges
    \/ DrainEnd
    \/ Catch
    \/ Return
    \/ BuildResponse
    \/ CompleteOrchestratorTask

Spec == Init /\ [][Next]_vars

\* execute and _execute_orchestrator are sequential code run by one pool thread: a
\* call that can take its next step takes it
FairInit == InitOver({"suspension"})
FairSpec == FairInit /\ [][Next]_vars /\ WF_vars(Next)

(***************************************************************************)
(* TaskHubGrpcWorker: the methods add_orchestrator, add_activity, start    *)
(* and stop, called one at a time by one thread; the dispatcher threads    *)
(* (run_loop); the sidecar, which answers Hello, sends work items on an    *)
(* open stream, ends it or breaks it; and the handlers run by the thread   *)
(* pool.  One behaviour of WorkerSpec is the life of one worker object.    *)
(***************************************************************************)
\* the execute call modelled above is not part of a behaviour of WorkerSpec
NoExecution ==
    /\ ctx = NewContext(InstanceId)
    /\ exe = [_is_suspended |-> FALSE, _suspended_events |-> <<>>]
    /\ phase = "init"
    /\ drainIdx = 0
    /\ nOld = 0
    /\ nNew = 0
    /\ exc = NoExc
    /\ returned = <<>>
    /\ last = NoLast
    /\ alphabet = "all"
    /\ acks = {}
    /\ hist = NoHist
    /\ res = NoResponse
    /\ sent = <<>>

WorkerInit == NoExecution /\ \E focus \in {"lifecycle", "work"} : WorkerIdle(focus)

\* the work items the sidecar sends.  history stands for pastEvents and newEvents:
\* "empty" (newEvents is empty), "ends" (execute returns a list) or "loops" (a history
\* on which the loop of executionResumed does not end)
WorkItem(variant, history, name, input) ==
    [variant |-> variant, instanceId |-> InstanceId, history |-> history,
     name |-> name, taskId |-> 7, input |-> input]
WorkItems ==
         {WorkItem("orchestratorRequest", h, "", Absent) : h \in {"empty", "ends", "loops"}}
    \cup {WorkItem("activityRequest", "", n, i) :
              n \in ActivityFns, i \in {Absent, to_json(Py("0"))}}
    \cup {WorkItem("none", "", "", Absent)}

LifecycleWorkItems == {WorkItem("orchestratorRequest", "ends", "", Absent)}

\* the registered activity functions, fn(ctx, activity_input): echo returns its input,
\* boom raises
ActivityFn(name, activity_input) ==
    IF name = "echo" THEN [exc |-> NoExc, val |-> activity_input]
    ELSE [exc |-> "UserError", val |-> None]

\* encoded_output = shared.to_json(activity_output) if activity_output is not None else None
EncodedOutputMutant(out) ==
    IF out.exc # NoExc THEN out
    ELSE [exc |-> NoExc, val |-> IF Truthy(out.val) THEN to_json(out.val) ELSE None]
EncodedOutput(out) ==
    IF out.exc # NoExc THEN out
    ELSE [exc |-> NoExc, val |-> IF out.val # None THEN to_json(out.val) ELSE None]

\* _ActivityExecutor.execute: [exc, val], the exception raised or the value returned
ActivityExecute(reg, name, task_id, encoded_input) ==
    IF name \notin reg.activities
    THEN [exc |-> "ActivityNotRegisteredError", val |-> None]
    ELSE EncodedOutput(ActivityFn(name, IF encoded_input # Absent
                                        THEN from_json(encoded_input) ELSE None))

\* pb.ActivityResponse(instanceId, taskId, result=...) or (..., failureDetails=...)
ActivityResponse(req, r) ==
    IF r.exc = NoExc
    THEN [instanceId |-> req.instanceId, taskId |-> req.taskId,
          result |-> get_string_value(r.val), failureDetails |-> ""]
    ELSE [instanceId |-> req.instanceId, taskId |-> req.taskId,
          result |-> Absent, failureDetails |-> r.exc]

\* the list execute returns on a history on which it returns
SomeActions == <<new_create_timer_action(1, 1)>>

\* one call stub.CompleteOrchestratorTask(res) / stub.CompleteActivityTask(res); an
\* exception it raises is logged
AttemptMutant(cs, i, method, r, delivered) ==
    IF delivered THEN Append(cs, [item |-> i, method |-> method, res |-> r, delivered |-> TRUE])
    ELSE cs \o <<[item |-> i, method |-> method, res |-> r, delivered |-> FALSE],
                 [item |-> i, method |-> method, res |-> r, delivered |-> TRUE]>>
Attempt(cs, i, method, r, delivered) ==
    Append(cs, [item |-> i, method |-> method, res |-> r, delivered |-> delivered])

(***************************************************************************)
(* The methods of the worker.                                              *)
(***************************************************************************)
Lifecycle == wh.focus = "lifecycle"

Called(op, error, changed, spawned) ==
    [op |-> op, running |-> _is_running, error |-> error, changed |-> changed,
     spawned |-> spawned]

\* add_orchestrator(fn), with n the name of fn
AddOrchestrator(n) ==
    /\ api = "idle"
    /\ Lifecycle
    /\ IF _is_running
       THEN /\ wh' = [wh EXCEPT !.lastCall = Called("add_orchestrator", "RuntimeError",
                                                    FALSE, FALSE)]
            /\ UNCHANGED registry
       ELSE IF n \in registry.orchestrators
       THEN /\ wh' = [wh EXCEPT !.lastCall = Called("add_orchestrator", "ValueError",
                                                    FALSE, FALSE)]
            /\ UNCHANGED registry
       ELSE /\ registry' = [registry EXCEPT !.orchestrators = @ \cup {n}]
            /\ wh' = [wh EXCEPT !.lastCall = Called("add_orchestrator", NoExc, TRUE, FALSE)]
    /\ UNCHANGED <<_is_running, _shutdown, _response_stream, _runLoop, pc, stream, api,
                   items, calls>>
    /\ UNCHANGED vars

\* add_activity(fn), with n the name of fn
AddActivityMutant(n) ==
    /\ api = "idle"
    /\ Lifecycle \/ ~_is_running
    /\ IF n \in registry.activities
       THEN /\ wh' = [wh EXCEPT !.lastCall = Called("add_activity", "ValueError",
                                                    FALSE, FALSE)]
            /\ UNCHANGED registry
       ELSE /\ registry' = [registry EXCEPT !.activities = @ \cup {n}]
            /\ wh' = [wh EXCEPT !.lastCall = Called("add_activity", NoExc, TRUE, FALSE)]
    /\ UNCHANGED <<_is_running, _shutdown, _response_stream, _runLoop, pc, stream, api,
                   items, calls>>
    /\ UNCHANGED vars
AddActivity(n) ==
    /\ api = "idle"
    /\ Lifecycle \/ ~_is_running
    /\ IF _is_running
       THEN /\ wh' = [wh EXCEPT !.lastCall = Called("add_activity", "RuntimeError",
                                                    FALSE, FALSE)]
            /\ UNCHANGED registry
       ELSE IF n \in registry.activities
       THEN /\ wh' = [wh EXCEPT !.lastCall = Called("add_activity", "ValueError",
                                                    FALSE, FALSE)]
            /\ UNCHANGED registry
       ELSE /\ registry' = [registry EXCEPT !.activities = @ \cup {n}]
            /\ wh' = [wh EXCEPT !.lastCall = Called("add_activity", NoExc, TRUE, FALSE)]
    /\ UNCHANGED <<_is_running, _shutdown, _response_stream, _runLoop, pc, stream, api,
                   items, calls>>
    /\ UNCHANGED vars

\* start() on a running worker: raise RuntimeError
StartRunning ==
    /\ api = "idle"
    /\ Lifecycle
    /\ _is_running
    /\ wh' = [wh EXCEPT !.lastCall = Called("start", "RuntimeError", FALSE, FALSE)]
    /\ UNCHANGED <<_is_running, _shutdown, _response_stream, _runLoop, registry, pc,
                   stream, api, items, calls>>
    /\ UNCHANGED vars

\* start() on a worker that is not running: self._runLoop = Thread(target=run_loop);
\* self._runLoop.start(); self._is_running = True
Start ==
    /\ api = "idle"
    /\ ~_is_running
    /\ wh.spawned < (IF wh.focus = "lifecycle" THEN MaxStarts ELSE MaxWorkStarts)
    /\ LET t == wh.spawned + 1 IN
          /\ pc' = [pc EXCEPT ![t] = "loop"]
          /\ _runLoop' = t
          /\ wh' = [wh EXCEPT !.lastCall = Called("start", NoExc, FALSE, TRUE),
                              !.registryAtStart = registry,
                              !.spawned = t]
    /\ _is_running' = TRUE
    /\ UNCHANGED <<_shutdown, _response_stream, registry, stream, api, items, calls>>
    /\ UNCHANGED vars

\* stop() on a worker that is not running: return
StopIdle ==
    /\ api = "idle"
    /\ Lifecycle
    /\ ~_is_running
    /\ wh' = [wh EXCEPT !.lastCall = Called("stop", NoExc, FALSE, FALSE)]
    /\ UNCHANGED <<_is_running, _shutdown, _response_stream, _runLoop, registry, pc,
                   stream, api, items, calls>>
    /\ UNCHANGED vars

\* stop() on a running worker: self._shutdown.set()
StopBegin ==
    /\ api = "idle"
    /\ _is_running
    /\ _shutdown' = TRUE
    /\ api' = "stop_cancel"
    /\ wh' = [wh EXCEPT !.lastCall = Called("stop", NoExc, FALSE, FALSE),
                        !.stopCalled[_runLoop] = TRUE]
    /\ UNCHANGED <<_is_running, _response_stream, _runLoop, registry, pc, stream, items,
                   calls>>
    /\ UNCHANGED vars

\* if self._response_stream is not None: self._response_stream.cancel()
StopCancel ==
    /\ api = "stop_cancel"
    /\ stream' = IF _response_stream # NoThread /\ stream[_response_stream].state = "open"
                 THEN [stream EXCEPT ![_response_stream] =
                                         [state |-> "cancelled", inbox |-> <<>>]]
                 ELSE stream
    /\ api' = "stop_join"
    /\ UNCHANGED <<_is_running, _shutdown, _response_stream, _runLoop, registry, pc, items,
                   calls, wh>>
    /\ UNCHANGED vars

\* the dispatcher t waits for something that may never come: the next message of an
\* open stream, or the end of a handler that does not end
Blocked(t) ==
    \/ pc[t] = "stream" /\ stream[t].state = "open" /\ stream[t].inbox = <<>>
    \/ /\ pc[t] = "closing"
       /\ \E i \in 1..Len(items) : items[i].thread = t /\ items[i].state = "diverged"

\* self._runLoop.join(timeout=30), which ends when the thread has ended or after 30
\* seconds of a blocked thread; then self._is_running = False
StopJoin ==
    /\ api = "stop_join"
    /\ pc[_runLoop] = "exit" \/ Blocked(_runLoop)
    /\ _is_running' = FALSE
    /\ api' = "idle"
    /\ wh' = [wh EXCEPT !.stopped[_runLoop] = TRUE]
    /\ UNCHANGED <<_shutdown, _response_stream, _runLoop, registry, pc, stream, items,
                   calls>>
    /\ UNCHANGED vars

(***************************************************************************)
(* run_loop, the dispatcher thread t.                                      *)
(***************************************************************************)
\* while not self._shutdown.is_set(): ... ; after the loop the pool is shut down
LoopCheckMutant(t) ==
    /\ pc[t] = "loop"
    /\ pc' = [pc EXCEPT ![t] = IF _shutdown \/ wh.why[t] # "none" THEN "closing" ELSE "hello"]
    /\ UNCHANGED <<_is_running, _shutdown, _response_stream, _runLoop, registry, stream,
                   api, items, calls, wh>>
    /\ UNCHANGED vars
LoopCheck(t) ==
    /\ pc[t] = "loop"
    /\ pc' = [pc EXCEPT ![t] = IF _shutdown THEN "closing" ELSE "hello"]
    /\ UNCHANGED <<_is_running, _shutdown, _response_stream, _runLoop, registry, stream,
                   api, items, calls, wh>>
    /\ UNCHANGED vars

\* stub.Hello(empty_pb2.Empty()): the sidecar answers, or the call raises
Hello(t) ==
    /\ pc[t] = "hello"
    /\ \E answered \in (IF Lifecycle THEN BOOLEAN ELSE {TRUE}) :
          /\ pc' = [pc EXCEPT ![t] = IF answered THEN "open" ELSE "wait"]
          /\ wh' = [wh EXCEPT !.why[t] = IF answered THEN @ ELSE "hello failed"]
    /\ UNCHANGED <<_is_running, _shutdown, _response_stream, _runLoop, registry, stream,
                   api, items, calls>>
    /\ UNCHANGED vars

\* self._response_stream = stub.GetWorkItems(pb.GetWorkItemsRequest())
GetWorkItems(t) ==
    /\ pc[t] = "open"
    /\ stream' = [stream EXCEPT ![t] = [state |-> "open", inbox |-> <<>>]]
    /\ _response_stream' = t
    /\ pc' = [pc EXCEPT ![t] = "stream"]
    /\ UNCHANGED <<_is_running, _shutdown, _runLoop, registry, api, items, calls, wh>>
    /\ UNCHANGED vars

\* for work_item in self._response_stream: submit it to the pool, or log a warning
ReceiveWorkItem(t) ==
    /\ pc[t] = "stream"
    /\ stream[t].state \in {"open", "ended"}
    /\ stream[t].inbox # <<>>
    /\ items' = Append(items,
                       [req |-> Head(stream[t].inbox), thread |-> t,
                        state |-> IF Head(stream[t].inbox).variant
                                        \in {"orchestratorRequest", "activityRequest"}
                                  THEN "submitted" ELSE "ignored",
                        late |-> wh.stopped[t], known |-> FALSE])
    /\ stream' = [stream EXCEPT ![t].inbox = <<>>]
    /\ UNCHANGED <<_is_running, _shutdown, _response_stream, _runLoop, registry, pc, api,
                   calls, wh>>
    /\ UNCHANGED vars

\* the stream is over: it ended, or next() raised RpcError (CANCELLED, UNAVAILABLE, other)
StreamOver(t) ==
    /\ pc[t] = "stream"
    /\ \/ stream[t].state \in {"cancelled", "failed"}
       \/ stream[t].state = "ended" /\ stream[t].inbox = <<>>
    /\ pc' = [pc EXCEPT ![t] = "wait"]
    /\ wh' = [wh EXCEPT !.why[t] = stream[t].state]
    /\ UNCHANGED <<_is_running, _shutdown, _response_stream, _runLoop, registry, stream,
                   api, items, calls>>
    /\ UNCHANGED vars

\* self._shutdown.wait(5): returns once the flag is set, or after 5 seconds
Wait(t) ==
    /\ pc[t] = "wait"
    /\ pc' = [pc EXCEPT ![t] = "loop"]
    /\ UNCHANGED <<_is_running, _shutdown, _response_stream, _runLoop, registry, stream,
                   api, items, calls, wh>>
    /\ UNCHANGED vars

\* leaving `with ThreadPoolExecutor(...)`: wait for the handlers submitted, then return
Close(t) ==
    /\ pc[t] = "closing"
    /\ \A i \in 1..Len(items) :
           items[i].thread = t => items[i].state \in {"done", "ignored"}
    /\ pc' = [pc EXCEPT ![t] = "exit"]
    /\ UNCHANGED <<_is_running, _shutdown, _response_stream, _runLoop, registry, stream,
                   api, items, calls, wh>>
    /\ UNCHANGED vars

(***************************************************************************)
(* The sidecar's end of the stream of thread t.                            *)
(***************************************************************************)
Inboxes == {t \in Threads : stream[t].inbox # <<>>}
SendWorkItem(t) ==
    /\ stream[t].state = "open"
    /\ stream[t].inbox = <<>>
    /\ Len(items) + Cardinality(Inboxes) <
           (IF wh.focus = "lifecycle" THEN MaxLifecycleItems ELSE MaxItems)
    /\ \E w \in (IF wh.focus = "lifecycle" THEN LifecycleWorkItems ELSE WorkItems) :
           stream' = [stream EXCEPT ![t].inbox = <<w>>]
    /\ UNCHANGED <<_is_running, _shutdown, _response_stream, _runLoop, registry, pc, api,
                   items, calls, wh>>
    /\ UNCHANGED vars

EndStream(t) ==
    /\ Lifecycle
    /\ stream[t].state = "open"
    /\ stream' = [stream EXCEPT ![t].state = "ended"]
    /\ UNCHANGED <<_is_running, _shutdown, _response_stream, _runLoop, registry, pc, api,
                   items, calls, wh>>
    /\ UNCHANGED vars

FailStream(t) ==
    /\ Lifecycle
    /\ stream[t].state = "open"
    /\ stream' = [stream EXCEPT ![t] = [state |-> "failed", inbox |-> <<>>]]
    /\ UNCHANGED <<_is_running, _shutdown, _response_stream, _runLoop, registry, pc, api,
                   items, calls, wh>>
    /\ UNCHANGED vars

(***************************************************************************)
(* The handlers the pool runs for the work item i.                         *)
(***************************************************************************)
\* _execute_orchestrator(req, stub); on a history of the kind "loops" execute does
\* not return
ExecuteOrchestrator(i) ==
    /\ items[i].state = "submitted"
    /\ items[i].req.variant = "orchestratorRequest"
    /\ IF items[i].req.history = "loops"
       THEN /\ items' = [items EXCEPT ![i].state = "diverged"]
            /\ UNCHANGED calls
       ELSE /\ items' = [items EXCEPT ![i].state = "done"]
            /\ \E delivered \in BOOLEAN :
                  calls' = Attempt(calls, i, "CompleteOrchestratorTask",
                               IF items[i].req.history = "empty"
                               THEN FailedResponse(items[i].req.instanceId,
                                                   "OrchestrationStateError")
                               ELSE OrchestratorResponse(items[i].req.instanceId,
                                                         SomeActions),
                               delivered)
    /\ UNCHANGED <<_is_running, _shutdown, _response_stream, _runLoop, registry, pc, stream,
                   api, wh>>
    /\ UNCHANGED vars

\* _execute_activity(req, stub)
ExecuteActivity(i) ==
    /\ items[i].state = "submitted"
    /\ items[i].req.variant = "activityRequest"
    /\ items' = [items EXCEPT ![i].state = "done",
                              ![i].known = items[i].req.name \in registry.activities]
    /\ \E delivered \in BOOLEAN :
          calls' = Attempt(calls, i, "CompleteActivityTask",
                           ActivityResponse(items[i].req,
                               ActivityExecute(registry, items[i].req.name,
                                               items[i].req.taskId, items[i].req.input)),
                           delivered)
    /\ UNCHANGED <<_is_running, _shutdown, _response_stream, _runLoop, registry, pc, stream,
                   api, wh>>
    /\ UNCHANGED vars

Dispatcher(t) ==
    \/ LoopCheck(t)
    \/ Hello(t)
    \/ GetWorkItems(t)
    \/ ReceiveWorkItem(t)
    \/ StreamOver(t)
    \/ Wait(t)
    \/ Close(t)

WorkerNext ==
    \/ \E n \in {"plain"} : AddOrchestrator(n)
    \/ \E n \in ActivityFns : AddActivity(n)
    \/ StartRunning
    \/ Start
    \/ StopIdle
    \/ StopBegin
    \/ StopCancel
    \/ StopJoin
    \/ \E t \in Threads : LoopCheck(t)
    \/ \E t \in Threads : Hello(t)
    \/ \E t \in Threads : GetWorkItems(t)
    \/ \E t \in Threads : ReceiveWorkItem(t)
    \/ \E t \in Threads : StreamOver(t)
    \/ \E t \in Threads : Wait(t)
    \/ \E t \in Threads : Close(t)
    \/ \E t \in Threads : SendWorkItem(t)
    \/ \E t \in Threads : EndStream(t)
    \/ \E t \in Threads : FailStream(t)
    \/ \E i \in 1..Len(items) : ExecuteOrchestrator(i)
    \/ \E i \in 1..Len(items) : ExecuteActivity(i)

WorkerSpec == WorkerInit /\ [][WorkerNext]_wvars

\* the threads run: a dispatcher that can take a step takes it, a handler in the pool
\* runs, and stop(), once called, goes on; the sidecar and the caller of start / stop
\* owe nothing
Fairness ==
    /\ \A t \in Threads : WF_wvars(Dispatcher(t))
    /\ WF_wvars(\E i \in 1..Len(items) : ExecuteOrchestrator(i) \/ ExecuteActivity(i))
    /\ WF_wvars(StopCancel \/ StopJoin)

FairWorkerSpec == WorkerSpec /\ Fairness

(***************************************************************************)
(* Properties.                                                             *)
(***************************************************************************)
Done == phase = "done"
Ids_of(actions) == [i \in 1..Len(actions) |-> actions[i].id]
VariantOf(type) ==
    CASE type = "timerCreated" -> "createTimer"
      [] type = "taskScheduled" -> "scheduleTask"
      [] type = "subOrchestrationInstanceCreated" -> "createSubOrchestration"
      [] OTHER -> "none"
IsNonDeterminismError(ex) ==
    ex \in {_get_non_determinism_error, _get_wrong_action_name_error,
            "NonDeterminismError: wrong action type"}
\* the last call of process_event handled an acknowledging event (the gate let it pass)
AckHandled == last.ev.type \in AckTypes /\ ~last.gated

\* C2 (as claimed): whenever an exception escaped process_event during execute, the
\* list execute returns is exactly one completeOrchestration action with status FAILED.
C2_FailureConvergence ==
    (Done /\ exc # NoExc) =>
        /\ Len(returned) = 1
        /\ returned[1].type = "completeOrchestration"
        /\ returned[1].status = FAILED

\* C3: in the list execute returns no id appears twice, and an id that a processed
\* timerCreated / taskScheduled / subOrchestrationInstanceCreated event acknowledged
\* (popped from the pending actions) is not in the list; an id such an event named
\* without finding an action can only be the id of the completeOrchestration action
\* that the resulting failure records.
C3_ActionPreservation ==
    Done =>
        /\ \A i, j \in 1..Len(returned) : i # j => returned[i].id # returned[j].id
        /\ \A a \in acks : \A i \in 1..Len(returned) :
               returned[i].id = a.id =>
                   a.popped = "none" /\ returned[i].type = "completeOrchestration"
C3_Witness ==
    /\ Done /\ exc = NoExc
    /\ Len(returned) >= 2
    /\ \E a \in acks : a.popped = VariantOf(a.type)

\* C4: the ids of the actions in the list execute returns are strictly increasing.
C4_EmissionOrder ==
    Done => \A i, j \in 1..Len(returned) : i < j => returned[i].id < returned[j].id
C4_Witness ==
    /\ Done
    /\ Ids_of(returned) = <<1, 3>>
    /\ \E a \in acks : a.id = 2 /\ a.popped # "none"

\* C5: the k-th action the context records has id k (ids are 1, 2, 3, ... without
\* gap or reuse), the sequence number counts the recorded actions, a call of
\* wait_for_external_event draws no id, and every returned id is in 1..sequenceNumber.
C5_SequenceNumbering ==
    /\ \A k \in 1..Len(ctx.h_recorded) : ctx.h_recorded[k] = k
    /\ Len(ctx.h_recorded) = ctx._sequence_number
    /\ ctx._sequence_number =
           (Len(ctx.tasks) - Len(ctx.h_waiters)) + (IF ctx._is_complete THEN 1 ELSE 0)
    /\ Done => \A i \in 1..Len(returned) : returned[i].id \in 1..ctx._sequence_number
C5_Witness ==
    /\ Done
    /\ Len(ctx.h_waiters) >= 2
    /\ ctx._sequence_number >= 2
    /\ Len(returned) >= 2

\* C6: for every event name (upper-cased), the i-th waiter created for it by
\* wait_for_external_event is settled with the payload of the i-th eventRaised event
\* of that name that was processed, and the waiters beyond the events are pending.
WaitersOf(c, n) == LET Test(w) == w.name = n IN SelectSeq(c.h_waiters, Test)
RaisedOf(c, n) == LET Test(r) == r.name = n IN SelectSeq(c.h_raised, Test)
C6_FifoExternalEvents ==
    \A n \in {upper(m) : m \in EventNames} :
        \A i \in 1..Len(WaitersOf(ctx, n)) :
            IF i <= Len(RaisedOf(ctx, n))
            THEN /\ ctx.tasks[WaitersOf(ctx, n)[i].task].state = "complete"
                 /\ ctx.tasks[WaitersOf(ctx, n)[i].task].result = RaisedOf(ctx, n)[i].data
            ELSE ctx.tasks[WaitersOf(ctx, n)[i].task].state = "pending"
C6_Witness ==
    /\ Len(WaitersOf(ctx, "APPROVAL")) >= 2
    /\ Len(RaisedOf(ctx, "APPROVAL")) >= 2
    /\ RaisedOf(ctx, "APPROVAL")[1].data # RaisedOf(ctx, "APPROVAL")[2].data
    /\ Len(ctx.h_resumed) >= 1

\* C7 (as claimed): an orchestrator that yields a task wait_for_external_event returned
\* already complete goes on past that yield within the same execute call: when execute
\* returns without a failure, the orchestrator is not suspended at a yield of a
\* completed external-event task.
IsWaiter(c, h) == \E k \in 1..Len(c.h_waiters) : c.h_waiters[k].task = h
C7_BufferedEventConsumed ==
    (/\ Done /\ exc = NoExc /\ ~ctx._is_complete
     /\ ctx._generator # NoGen
     /\ ~Finished(ctx._generator)
     /\ IsWaiter(ctx, ctx._generator.awaiting))
        => ~is_complete(ctx.tasks[ctx._generator.awaiting])

\* C8 (as claimed): the failure of a task is thrown into the orchestrator once, at the
\* yield of that task; after the orchestrator caught it and yielded T2, it is resumed
\* with the outcome of T2: every resumption of the generator delivers the outcome of
\* the task the generator is awaiting at that point.
C8_FailureThrownOnce ==
    /\ \A k \in 1..Len(ctx.h_resumed) : ctx.h_resumed[k].task = ctx.h_resumed[k].awaiting
    /\ \A j, k \in 1..Len(ctx.h_resumed) :
           (j < k /\ ctx.h_resumed[j].how = "throw" /\ ctx.h_resumed[k].how = "throw")
               => ctx.h_resumed[j].task # ctx.h_resumed[k].task

\* C9: a processed timerCreated / taskScheduled / subOrchestrationInstanceCreated event
\* whose eventId has no pending action, or has a scheduleTask / createSubOrchestration
\* action with another name than the event's, makes process_event raise
\* NonDeterminismError (the no-such-action message when there is none, the wrong-name
\* message when the variant is the event's own), and leaves no pending action with
\* that id.
C9_MissingOrMisnamed ==
    AckHandled =>
        /\ last.pre = NoAction => last.exc = _get_non_determinism_error
        /\ (last.pre.type \in {"scheduleTask", "createSubOrchestration"}
               /\ last.pre.name # last.ev.name) => IsNonDeterminismError(last.exc)
        /\ (last.pre.type = VariantOf(last.ev.type)
               /\ last.pre.type \in {"scheduleTask", "createSubOrchestration"}
               /\ last.pre.name # last.ev.name) => last.exc = _get_wrong_action_name_error
        /\ \A i \in 1..Len(last.pendingAfter) : last.pendingAfter[i].id # last.ev.id
C9_Witness ==
    /\ AckHandled
    /\ last.ev.type = "subOrchestrationInstanceCreated"
    /\ last.pre.type = "createSubOrchestration"
    /\ last.pre.name # last.ev.name
    /\ phase = "except"
    /\ Len(last.pendingAfter) >= 1

\* C10 (as claimed): a processed acknowledging event whose eventId has a pending action
\* of another variant (createTimer, scheduleTask, createSubOrchestration or
\* completeOrchestration) raises NonDeterminismError (wrong action type).
C10_WrongVariant ==
    (AckHandled /\ last.pre # NoAction /\ last.pre.type # VariantOf(last.ev.type))
        => last.exc = "NonDeterminismError: wrong action type"

\* C11 (as claimed): while the executor is suspended, an event other than
\* executionResumed / executionTerminated is only appended to _suspended_events and
\* leaves the context as it was; the loop of executionResumed then handles the
\* buffered events once each, in the order of the list as it was when executionResumed
\* arrived (the list does not change under the loop), and once the loop is over and
\* the executor is not suspended the list is empty.
Draining == phase \in {"replay", "live"} /\ drainIdx >= 1
C11_SuspendResume ==
    /\ (last.suspendedBefore /\ _is_suspendable(last.ev)) => last.gated
    /\ last.gated => (~last.changed /\ last.appended /\ last.exc = NoExc)
    /\ Draining => exe._suspended_events = hist.resumedWith
    /\ (phase \in {"replay", "live"} /\ drainIdx = 0 /\ ~exe._is_suspended)
           => exe._suspended_events = <<>>

\* C12: an executionTerminated event is handled also while the executor is suspended
\* (the gate never buffers it) and raises nothing; if the context was not complete it
\* latches _is_complete and appends one completeOrchestration action with status
\* TERMINATED, the next id, and the event's payload as it is for result (absent for an
\* empty payload), the only completion action pending; if the context was complete it
\* leaves the context as it was.
IsCompletion(a) == a.type = "completeOrchestration"
Completions(actions) == SelectSeq(actions, IsCompletion)
C12_TerminationBypassesSuspension ==
    last.ev.type = "executionTerminated" =>
        /\ ~last.gated
        /\ last.exc = NoExc
        /\ last.completeBefore => ~last.changed
        /\ ~last.completeBefore =>
               /\ ctx._is_complete
               /\ Len(Completions(last.pendingAfter)) = 1
               /\ LET a == last.pendingAfter[Len(last.pendingAfter)] IN
                      /\ IsCompletion(a)
                      /\ a.status = TERMINATED
                      /\ a.id = last.seqBefore + 1
                      /\ a.result = last.ev.data
                      /\ a.failure = ""
C12_Witness ==
    /\ last.ev.type = "executionTerminated"
    /\ last.suspendedBefore
    /\ ~last.completeBefore
    /\ last.ev.data = to_json(Py("True"))
    /\ Len(last.pendingAfter) >= 2
    /\ exe._suspended_events # <<>>

\* C13: the clock of the context is the timestamp of the last orchestratorStarted
\* event that was handled (that got past the suspension gate), datetime.min before
\* the first; so an event of another kind does not change it, and a timer the
\* orchestrator created while an event was handled fires one unit after that
\* timestamp.
C13_Clock ==
    /\ ctx._current_utc_datetime = hist.started
    /\ \A i \in 1..Len(last.pendingAfter) :
           (last.pendingAfter[i].type = "createTimer"
               /\ last.pendingAfter[i].id > last.seqBefore)
               => last.pendingAfter[i].fireAt = hist.started + 1
C13_Witness ==
    /\ hist.started = 1
    /\ last.ev.type = "executionStarted"
    /\ \E i \in 1..Len(last.pendingAfter) :
           /\ last.pendingAfter[i].type = "createTimer"
           /\ last.pendingAfter[i].fireAt = 2
    /\ nOld + nNew = 3

\* C14: when new_events is empty, execute raises OrchestrationStateError before it
\* handles any event of old_events, and _execute_orchestrator makes one call of
\* CompleteOrchestratorTask, with a response for the request's instance whose
\* actions are one completeOrchestration action with status FAILED.
C14_EmptyNewHistory ==
    phase = "raised" =>
        /\ exc = "OrchestrationStateError"
        /\ nOld = 0 /\ last = NoLast /\ ctx = NewContext(InstanceId)
        /\ res # NoResponse =>
               /\ res.instanceId = InstanceId
               /\ Len(res.actions) = 1
               /\ IsCompletion(res.actions[1])
               /\ res.actions[1].status = FAILED
               /\ res.actions[1].failure = "OrchestrationStateError"
        /\ Len(sent) <= 1
        /\ sent # <<>> => sent[1].res = res /\ res # NoResponse
        /\ sent = <<>> => ENABLED (BuildResponse \/ CompleteOrchestratorTask)
C14_Witness ==
    /\ phase = "raised"
    /\ Len(sent) = 1
    /\ ~sent[1].delivered
    /\ sent[1].res.actions[1].id = -1

(***************************************************************************)
(* Properties of the worker.                                               *)
(***************************************************************************)
CallsFor(i) == LET Test(c) == c.item = i IN SelectSeq(calls, Test)
MethodFor(variant) ==
    IF variant = "orchestratorRequest" THEN "CompleteOrchestratorTask"
    ELSE "CompleteActivityTask"
Left(t) == pc[t] \in {"closing", "exit"}

C16_StopHalts ==
    /\ \A t \in Threads : [](wh.stopCalled[t] => <>Left(t))
    /\ [](\A i \in 1..Len(items) : ~items[i].late)

\* C17: a dispatcher that has come out of a failed Hello or of a stream that failed,
\* was cancelled or ended, while the shutdown flag is not set, gets to the next Hello
\* (unless the flag is set meanwhile); and a dispatcher has left its loop only if the
\* flag is set.
C17_ReconnectUntilStop ==
    /\ \A t \in Threads : (pc[t] = "wait" /\ ~_shutdown) ~> (pc[t] = "hello" \/ _shutdown)
    /\ [](\A t \in Threads : Left(t) => _shutdown)
C17_Witness ==
    \E t \in Threads :
        /\ pc[t] = "hello"
        /\ wh.why[t] = "ended"
        /\ ~_shutdown
        /\ Len(items) = 1

\* C18 (as claimed): in every running period, also one that follows a stop(), the
\* dispatcher start() created stays in its loop (Hello, stream, reconnect) until
\* stop() is called in that period.
C18_WorkerRestart ==
    \A t \in Threads :
        (_is_running /\ _runLoop = t /\ ~wh.stopCalled[t]) => ~Left(t)

\* C19: add_orchestrator, add_activity and start called on a running worker raise
\* RuntimeError, change nothing in the registry and start no thread; a call that
\* changed the registry or started a thread found the worker not running; the
\* registry of a running worker is the one it was started with, and one thread was
\* started per successful start().
C19_RegistrationOnlyWhenIdle ==
    /\ (wh.lastCall.running
           /\ wh.lastCall.op \in {"add_orchestrator", "add_activity", "start"})
           => /\ wh.lastCall.error = "RuntimeError"
              /\ ~wh.lastCall.changed
              /\ ~wh.lastCall.spawned
    /\ (wh.lastCall.changed \/ wh.lastCall.spawned) => ~wh.lastCall.running
    /\ _is_running => registry = wh.registryAtStart
    /\ Cardinality({t \in Threads : pc[t] # "unborn"}) = wh.spawned
C19_Witness ==
    /\ wh.lastCall.op = "add_activity"
    /\ wh.lastCall.running
    /\ wh.lastCall.error = "RuntimeError"
    /\ registry.activities = {"echo"}
    /\ \E t \in Threads : pc[t] = "stream"

\* C20: every CompleteActivityTask call carries the instanceId and the taskId of its
\* request and never both a result and failureDetails; for an activity that was
\* registered and returned, no failureDetails and the JSON encoding of what it
\* returned as result (absent when it returned None); for one that raised or was not
\* registered, failureDetails and no result; and every activityRequest whose handler
\* ran has such a call.
C20_ActivityOutcome ==
    /\ \A k \in 1..Len(calls) :
           calls[k].method = "CompleteActivityTask" =>
               LET it == items[calls[k].item] IN
                   /\ calls[k].res.instanceId = it.req.instanceId
                   /\ calls[k].res.taskId = it.req.taskId
                   /\ ~(calls[k].res.result # Absent /\ calls[k].res.failureDetails # "")
                   /\ (it.known /\ it.req.name = "echo") =>
                          /\ calls[k].res.failureDetails = ""
                          /\ calls[k].res.result =
                                 (IF it.req.input = Absent THEN Absent
                                  ELSE to_json(Py("0")))
                   /\ it.known /\ it.req.name = "boom" =>
                          /\ calls[k].res.failureDetails = "UserError"
                          /\ calls[k].res.result = Absent
                   /\ ~it.known =>
                          /\ calls[k].res.failureDetails = "ActivityNotRegisteredError"
                          /\ calls[k].res.result = Absent
    /\ \A i \in 1..Len(items) :
           (items[i].req.variant = "activityRequest" /\ items[i].state = "done")
               => \E k \in 1..Len(calls) :
                      calls[k].item = i /\ calls[k].method = "CompleteActivityTask"
C20_Witness ==
    /\ Len(calls) = 2
    /\ calls[1].method = "CompleteActivityTask"
    /\ calls[1].res.result = to_json(Py("0"))
    /\ calls[2].method = "CompleteActivityTask"
    /\ calls[2].res.failureDetails = "ActivityNotRegisteredError"

\* C21 (as claimed): every call of process_event for an event of old_events is made
\* with _is_replaying = True and every call for an event of new_events with
\* _is_replaying = False, also when the call is made by the loop of executionResumed
\* for an event that was buffered earlier.
C21_ReplayFlag ==
    last.ev # NoEvent => (last.replaying <=> last.old)

\* C22 (as claimed): once _is_complete went from false to true during the loop over
\* new_events, no later call of process_event for an event of new_events changes the
\* context, also when that call is made by the loop of executionResumed for an event
\* the suspension gate had buffered.
C22_LiveStopsAtCompletion ==
    (last.latchedBefore /\ ~last.old) => ~last.changed

\* C23 (as claimed): the generator is resumed (by send or by throw) only when the task
\* it yielded last is settled, so settling another pending task leaves it where it
\* is; after a call of process_event that resumed it and raised nothing, it is either
\* suspended at the yield of a task that is still pending, or it has returned and its
\* return value is recorded in a completeOrchestration action with status COMPLETED.
Advanced == Len(ctx.h_resumed) > last.resumedBefore
AtYield == ctx._generator # NoGen /\ ~Finished(ctx._generator)
C23_ResumeDiscipline ==
    /\ \A k \in 1..Len(ctx.h_resumed) : ctx.h_resumed[k].state # "pending"
    /\ (Advanced /\ last.exc = NoExc /\ AtYield) =>
           ctx.tasks[ctx._generator.awaiting].state = "pending"
    /\ (Advanced /\ last.exc = NoExc /\ ~AtYield /\ ~last.completeBefore) =>
           /\ ctx._is_complete
           /\ LET a == last.pendingAfter[Len(last.pendingAfter)] IN
                  /\ IsCompletion(a)
                  /\ a.status = COMPLETED
                  /\ a.result = get_string_value(IF ctx._result = None THEN None
                                                  ELSE to_json(ctx._result))

\* C24: a timerFired, taskCompleted, taskFailed, subOrchestrationInstanceCompleted or
\* subOrchestrationInstanceFailed event that is handled while no pending task has its
\* id raises nothing and leaves the whole context as it was (pending actions, pending
\* tasks, sequence number, completion latch, generator position); no call of
\* process_event changes a task that is already settled, and every task still in
\* _pending_tasks is pending, so a second completion event for an id finds no task.
UnexpectedCompletion == last.ev.type \in CompletionTypes /\ ~last.gated /\ ~last.hadTask
C24_UnexpectedCompletionIgnored ==
    /\ UnexpectedCompletion => (last.exc = NoExc /\ ~last.changed)
    /\ ~last.resettled
    /\ \A id \in DOMAIN ctx._pending_tasks : ctx.tasks[ctx._pending_tasks[id]].state = "pending"
C24_Witness ==
    /\ UnexpectedCompletion
    /\ last.ev.type = "taskCompleted" /\ last.ev.id = 1
    /\ ctx._generator.fn = "catch"
    /\ ctx.tasks[1].state = "failed"
    /\ Len(ctx.h_resumed) = 1
    /\ phase = "live"

\* C25 (as claimed): an executionResumed event handled while the executor is not
\* suspended raises nothing and leaves the context, the latch and the (empty) buffer
\* as they were; process_event raises OrchestrationStateError only for an event of a
\* kind it has no branch for.
C25_ResumedWithoutSuspension ==
    /\ (last.ev.type = "executionResumed" /\ ~last.suspendedBefore) =>
           /\ last.exc = NoExc
           /\ ~last.changed
           /\ ~exe._is_suspended /\ exe._suspended_events = <<>>
    /\ last.exc = "OrchestrationStateError" => last.ev.type = "genericEvent"

\* C26 (as claimed): the action call_activity / call_sub_orchestrator records has an
\* absent input if and only if the call's input is None; for every other input,
\* 0, False, '' and empty collections included, it carries the JSON encoding.
C26_InputEncoding ==
    \A k \in 1..Len(ctx.h_inputs) :
        /\ is_empty(ctx.h_inputs[k].encoded) <=> ctx.h_inputs[k].input = None
        /\ ctx.h_inputs[k].input # None =>
               ctx.h_inputs[k].encoded = to_json(ctx.h_inputs[k].input)

\* C27 (as claimed): every call of execute, for any finite old_events and new_events
\* and an orchestrator that yields or returns after finitely many steps, comes to an
\* end: it returns its list of actions or raises; the loop of executionResumed over
\* the buffered events always finishes.
C27_ExecuteTerminates == <>(phase \in {"done", "raised"})
\* why the loop marked by DrainDiverges does not end in the code: once the executor
\* is suspended again inside the loop with an element still to come, every step of
\* the loop appends one element and moves one ahead, so the distance to the end of
\* the list stays what it is
DrainStuck == Draining /\ exe._is_suspended /\ drainIdx <= Len(exe._suspended_events)
DrainNeverCatchesUp ==
    [][DrainStuck =>
           \/ phase' = "diverged"
           \/ /\ DrainStuck'
              /\ Len(exe'._suspended_events) - drainIdx' = Len(exe._suspended_events) - drainIdx]_vars

\* C28 (as claimed): when execute has returned, the returned list holds exactly one
\* completeOrchestration action, as its last element, if the context's _is_complete
\* latch is set, and no completeOrchestration action if it is not; and no step takes
\* _is_complete from true back to false.
CompletionEmitted ==
    Done => IF ctx._is_complete
            THEN /\ Len(Completions(returned)) = 1
                 /\ IsCompletion(returned[Len(returned)])
            ELSE Completions(returned) = <<>>
C28_CompletionEmitted ==
    /\ []CompletionEmitted
    /\ [][ctx._is_complete => ctx'._is_complete]_vars

\* C29: for every upper-cased event name, the list of waiting tasks (_pending_events)
\* and the list of buffered events (_received_events) are never both non-empty, and
\* neither dict maps a name to an empty list.
UpperNames == {upper(n) : n \in EventNames}
====
